---- MODULE Spec2Model ----
(***************************************************************************)
(* The mock HTTP endpoint server of test/mock-http-server/server.py:       *)
(* MockHTTPHandler (routing and scenario handlers), ThreadedHTTPServer     *)
(* (one daemon thread per connection) and main (serve until interrupted).  *)
(*                                                                         *)
(* Text is modelled as sequences of one-character strings, so that the     *)
(* conversions of the code (str.strip, str.split, urlparse, parse_qs,      *)
(* int(), float(), str(), json.dumps, str.encode) are computed and not     *)
(* assumed.  Time is counted in tenths of a second.                        *)
(***************************************************************************)
EXTENDS Integers, Sequences, FiniteSets, TLC

(***************************************************************************)
(* Bounds of the model.                                                    *)
(***************************************************************************)
\* connections accepted in one run of the concurrent specification
MaxConn == 2

(***************************************************************************)
(* Characters and text.                                                    *)
(***************************************************************************)
DigitChars == <<"0", "1", "2", "3", "4", "5", "6", "7", "8", "9">>

IsDigit(ch) == \E i \in 1..10 : DigitChars[i] = ch

DigitVal(ch) == (CHOOSE i \in 1..10 : DigitChars[i] = ch) - 1

Front(s) == SubSeq(s, 1, Len(s) - 1)

\* s begins with the text p
StartsWith(s, p) == Len(s) >= Len(p) /\ SubSeq(s, 1, Len(p)) = p

\* index of the first occurrence of character ch in s, 0 when there is none
IndexOf(s, ch) ==
  IF \E i \in 1..Len(s) : s[i] = ch
  THEN CHOOSE i \in 1..Len(s) : s[i] = ch /\ \A j \in 1..(i - 1) : s[j] # ch
  ELSE 0

\* str.strip("/"): every leading and every trailing "/" removed
RECURSIVE LStrip(_, _)
LStrip(s, ch) == IF s # <<>> /\ Head(s) = ch THEN LStrip(Tail(s), ch) ELSE s

RECURSIVE RStrip(_, _)
RStrip(s, ch) ==
  IF s # <<>> /\ s[Len(s)] = ch THEN RStrip(Front(s), ch) ELSE s

Strip(s, ch) == RStrip(LStrip(s, ch), ch)

\* str.split(ch): the pieces between the occurrences of ch, empty pieces
\* kept; the split of the empty text is one empty piece
RECURSIVE Split(_, _)
Split(s, ch) ==
  LET i == IndexOf(s, ch)
  IN IF i = 0 THEN <<s>>
     ELSE <<SubSeq(s, 1, i - 1)>> \o Split(SubSeq(s, i + 1, Len(s)), ch)

\* str(n) of a natural number
RECURSIVE NatToStr(_)
NatToStr(n) ==
  IF n < 10 THEN <<DigitChars[n + 1]>>
  ELSE NatToStr(n \div 10) \o <<DigitChars[(n % 10) + 1]>>

\* str(n) of an integer
IntToStr(n) == IF n < 0 THEN <<"-">> \o NatToStr(0 - n) ELSE NatToStr(n)

(***************************************************************************)
(* int(text): an optional sign, then decimal digits, single underscores    *)
(* allowed between digits.  Anything else raises ValueError.               *)
(***************************************************************************)
Unsigned(s) == IF s # <<>> /\ Head(s) \in {"+", "-"} THEN Tail(s) ELSE s

IsDigitGroups(d) ==
  /\ d # <<>>
  /\ IsDigit(d[1])
  /\ IsDigit(d[Len(d)])
  /\ \A i \in 1..Len(d) : IsDigit(d[i]) \/ d[i] = "_"
  /\ \A i \in 1..(Len(d) - 1) : ~(d[i] = "_" /\ d[i + 1] = "_")

RECURSIVE DigitsValue(_, _)
DigitsValue(d, acc) ==
  IF d = <<>> THEN acc
  ELSE IF Head(d) = "_" THEN DigitsValue(Tail(d), acc)
  ELSE DigitsValue(Tail(d), acc * 10 + DigitVal(Head(d)))

IsIntLiteral(s) == IsDigitGroups(Unsigned(s))

IntValue(s) ==
  IF s # <<>> /\ Head(s) = "-"
  THEN 0 - DigitsValue(Unsigned(s), 0)
  ELSE DigitsValue(Unsigned(s), 0)

(***************************************************************************)
(* float(text): an optional sign, then "nan", "inf", or decimal digits     *)
(* with an optional fraction (one of the two sides of the point may be    *)
(* empty).  Exponents are not among the inputs of the model.  The value of a number is kept in tenths     *)
(* (one decimal), which is exact for the literals the model feeds it.      *)
(***************************************************************************)
IsFloatNumber(u) ==
  LET i == IndexOf(u, ".")
  IN IF i = 0 THEN IsDigitGroups(u)
     ELSE /\ i = 1 \/ IsDigitGroups(SubSeq(u, 1, i - 1))
          /\ i = Len(u) \/ IsDigitGroups(SubSeq(u, i + 1, Len(u)))
          /\ Len(u) > 1

FloatTenths(u) ==
  LET i == IndexOf(u, ".")
  IN IF i = 0 THEN DigitsValue(u, 0) * 10
     ELSE DigitsValue(SubSeq(u, 1, i - 1), 0) * 10
          + (IF i = Len(u) THEN 0 ELSE DigitVal(u[i + 1]))

\* [kind |-> "err"] for ValueError, else the float: "nan", "inf" (signed by
\* neg) or "num" with its value in tenths
ParseFloat(s) ==
  LET u == Unsigned(s)
      neg == s # <<>> /\ Head(s) = "-"
  IN IF u = <<"n", "a", "n">> THEN [kind |-> "nan", neg |-> neg, tenths |-> 0]
     ELSE IF u = <<"i", "n", "f">>
     THEN [kind |-> "inf", neg |-> neg, tenths |-> 0]
     ELSE IF IsFloatNumber(u)
     THEN [kind |-> "num", neg |-> neg,
           tenths |-> IF neg THEN 0 - FloatTenths(u) ELSE FloatTenths(u)]
     ELSE [kind |-> "err", neg |-> FALSE, tenths |-> 0]

\* x < n and x > n of Python floats, n a whole number of seconds
FloatLess(x, n) ==
  \/ x.kind = "num" /\ x.tenths < n * 10
  \/ x.kind = "inf" /\ x.neg

FloatGreater(x, n) ==
  \/ x.kind = "num" /\ x.tenths > n * 10
  \/ x.kind = "inf" /\ ~x.neg

\* repr(x) of a float, as f-strings and json.dumps print it
FloatRepr(x) ==
  IF x.kind = "nan" THEN <<"n", "a", "n">>
  ELSE IF x.kind = "inf"
  THEN (IF x.neg THEN <<"-">> ELSE <<>>) \o <<"i", "n", "f">>
  ELSE LET a == IF x.tenths < 0 THEN 0 - x.tenths ELSE x.tenths
       IN (IF x.neg THEN <<"-">> ELSE <<>>)
          \o NatToStr(a \div 10) \o <<".">> \o NatToStr(a % 10)

(***************************************************************************)
(* The texts of the program and of the requests, as character sequences.   *)
(***************************************************************************)
Texts ==
  (" seconds" :>
        <<" ", "s", "e", "c", "o", "n", "d", "s">>)
  @@ ("'" :>
        <<"'">>)
  @@ ("..." :>
        <<".", ".", ".">>)
  @@ ("/" :>
        <<"/">>)
  @@ ("/?x=1" :>
        <<"/", "?", "x", "=", "1">>)
  @@ ("/Status/200" :>
        <<"/", "S", "t", "a", "t", "u", "s", "/", "2", "0", "0">>)
  @@ ("/a//b" :>
        <<"/", "a", "/", "/", "b">>)
  @@ ("/delay" :>
        <<"/", "d", "e", "l", "a", "y">>)
  @@ ("/delay/" :>
        <<"/", "d", "e", "l", "a", "y", "/">>)
  @@ ("/delay/-0" :>
        <<"/", "d", "e", "l", "a", "y", "/", "-", "0">>)
  @@ ("/delay/-1" :>
        <<"/", "d", "e", "l", "a", "y", "/", "-", "1">>)
  @@ ("/delay/.5" :>
        <<"/", "d", "e", "l", "a", "y", "/", ".", "5">>)
  @@ ("/delay//1" :>
        <<"/", "d", "e", "l", "a", "y", "/", "/", "1">>)
  @@ ("/delay/0" :>
        <<"/", "d", "e", "l", "a", "y", "/", "0">>)
  @@ ("/delay/0.5" :>
        <<"/", "d", "e", "l", "a", "y", "/", "0", ".", "5">>)
  @@ ("/delay/1" :>
        <<"/", "d", "e", "l", "a", "y", "/", "1">>)
  @@ ("/delay/1/x" :>
        <<"/", "d", "e", "l", "a", "y", "/", "1", "/", "x">>)
  @@ ("/delay/2" :>
        <<"/", "d", "e", "l", "a", "y", "/", "2">>)
  @@ ("/delay/300" :>
        <<"/", "d", "e", "l", "a", "y", "/", "3", "0", "0">>)
  @@ ("/delay/300.5" :>
        <<"/", "d", "e", "l", "a", "y", "/", "3", "0", "0", ".", "5">>)
  @@ ("/delay/301" :>
        <<"/", "d", "e", "l", "a", "y", "/", "3", "0", "1">>)
  @@ ("/delay/abc" :>
        <<"/", "d", "e", "l", "a", "y", "/", "a", "b", "c">>)
  @@ ("/delay/inf" :>
        <<"/", "d", "e", "l", "a", "y", "/", "i", "n", "f">>)
  @@ ("/delay/nan" :>
        <<"/", "d", "e", "l", "a", "y", "/", "n", "a", "n">>)
  @@ ("/delay/{seconds}" :>
        <<"/", "d", "e", "l", "a", "y", "/", "{", "s", "e", "c", "o", "n", "d", "s", "}">>)
  @@ ("/echo" :>
        <<"/", "e", "c", "h", "o">>)
  @@ ("/echo/a/b" :>
        <<"/", "e", "c", "h", "o", "/", "a", "/", "b">>)
  @@ ("/echo?x=1" :>
        <<"/", "e", "c", "h", "o", "?", "x", "=", "1">>)
  @@ ("/echo?x=1&x=2&y=a+b" :>
        <<"/", "e", "c", "h", "o", "?", "x", "=", "1", "&", "x", "=", "2", "&", "y", "=", "a", "+", "b">>)
  @@ ("/health" :>
        <<"/", "h", "e", "a", "l", "t", "h">>)
  @@ ("/health/x/" :>
        <<"/", "h", "e", "a", "l", "t", "h", "/", "x", "/">>)
  @@ ("/nonexistent" :>
        <<"/", "n", "o", "n", "e", "x", "i", "s", "t", "e", "n", "t">>)
  @@ ("/status" :>
        <<"/", "s", "t", "a", "t", "u", "s">>)
  @@ ("/status/" :>
        <<"/", "s", "t", "a", "t", "u", "s", "/">>)
  @@ ("/status/+204" :>
        <<"/", "s", "t", "a", "t", "u", "s", "/", "+", "2", "0", "4">>)
  @@ ("/status/-1" :>
        <<"/", "s", "t", "a", "t", "u", "s", "/", "-", "1">>)
  @@ ("/status//200" :>
        <<"/", "s", "t", "a", "t", "u", "s", "/", "/", "2", "0", "0">>)
  @@ ("/status/100" :>
        <<"/", "s", "t", "a", "t", "u", "s", "/", "1", "0", "0">>)
  @@ ("/status/1e2" :>
        <<"/", "s", "t", "a", "t", "u", "s", "/", "1", "e", "2">>)
  @@ ("/status/200" :>
        <<"/", "s", "t", "a", "t", "u", "s", "/", "2", "0", "0">>)
  @@ ("/status/200.0" :>
        <<"/", "s", "t", "a", "t", "u", "s", "/", "2", "0", "0", ".", "0">>)
  @@ ("/status/301?x=1" :>
        <<"/", "s", "t", "a", "t", "u", "s", "/", "3", "0", "1", "?", "x", "=", "1">>)
  @@ ("/status/404" :>
        <<"/", "s", "t", "a", "t", "u", "s", "/", "4", "0", "4">>)
  @@ ("/status/404/extra" :>
        <<"/", "s", "t", "a", "t", "u", "s", "/", "4", "0", "4", "/", "e", "x", "t", "r", "a">>)
  @@ ("/status/599" :>
        <<"/", "s", "t", "a", "t", "u", "s", "/", "5", "9", "9">>)
  @@ ("/status/5_03" :>
        <<"/", "s", "t", "a", "t", "u", "s", "/", "5", "_", "0", "3">>)
  @@ ("/status/600" :>
        <<"/", "s", "t", "a", "t", "u", "s", "/", "6", "0", "0">>)
  @@ ("/status/99" :>
        <<"/", "s", "t", "a", "t", "u", "s", "/", "9", "9">>)
  @@ ("/status/abc" :>
        <<"/", "s", "t", "a", "t", "u", "s", "/", "a", "b", "c">>)
  @@ ("/status/{code}" :>
        <<"/", "s", "t", "a", "t", "u", "s", "/", "{", "c", "o", "d", "e", "}">>)
  @@ ("/statusx/200" :>
        <<"/", "s", "t", "a", "t", "u", "s", "x", "/", "2", "0", "0">>)
  @@ ("/timeout" :>
        <<"/", "t", "i", "m", "e", "o", "u", "t">>)
  @@ ("/timeout/x" :>
        <<"/", "t", "i", "m", "e", "o", "u", "t", "/", "x">>)
  @@ ("/timeoutx" :>
        <<"/", "t", "i", "m", "e", "o", "u", "t", "x">>)
  @@ ("/whatsapp" :>
        <<"/", "w", "h", "a", "t", "s", "a", "p", "p">>)
  @@ ("/whatsapp/send?phone=123&apikey=abc&text=hi" :>
        <<"/", "w", "h", "a", "t", "s", "a", "p", "p", "/", "s", "e", "n", "d", "?", "p", "h", "o", "n", "e", "=", "1", "2", "3", "&", "a", "p", "i", "k", "e", "y", "=", "a", "b", "c", "&", "t", "e", "x", "t", "=", "h", "i">>)
  @@ ("/whatsapp?" :>
        <<"/", "w", "h", "a", "t", "s", "a", "p", "p", "?">>)
  @@ ("/whatsapp?apikey=abc&text=hi" :>
        <<"/", "w", "h", "a", "t", "s", "a", "p", "p", "?", "a", "p", "i", "k", "e", "y", "=", "a", "b", "c", "&", "t", "e", "x", "t", "=", "h", "i">>)
  @@ ("/whatsapp?phone=&apikey=abc&text=hi" :>
        <<"/", "w", "h", "a", "t", "s", "a", "p", "p", "?", "p", "h", "o", "n", "e", "=", "&", "a", "p", "i", "k", "e", "y", "=", "a", "b", "c", "&", "t", "e", "x", "t", "=", "h", "i">>)
  @@ ("/whatsapp?phone=123&apikey&text=hi" :>
        <<"/", "w", "h", "a", "t", "s", "a", "p", "p", "?", "p", "h", "o", "n", "e", "=", "1", "2", "3", "&", "a", "p", "i", "k", "e", "y", "&", "t", "e", "x", "t", "=", "h", "i">>)
  @@ ("/whatsapp?phone=123&apikey=abc" :>
        <<"/", "w", "h", "a", "t", "s", "a", "p", "p", "?", "p", "h", "o", "n", "e", "=", "1", "2", "3", "&", "a", "p", "i", "k", "e", "y", "=", "a", "b", "c">>)
  @@ ("/whatsapp?phone=123&apikey=abc&text=" :>
        <<"/", "w", "h", "a", "t", "s", "a", "p", "p", "?", "p", "h", "o", "n", "e", "=", "1", "2", "3", "&", "a", "p", "i", "k", "e", "y", "=", "a", "b", "c", "&", "t", "e", "x", "t", "=">>)
  @@ ("/whatsapp?phone=123&apikey=abc&text=aaaaaaaaaaaaaaaaaaaaaaaaaaaaaaaaaaaaaaaaaaaaaaaaaz" :>
        <<"/", "w", "h", "a", "t", "s", "a", "p", "p", "?", "p", "h", "o", "n", "e", "=", "1", "2", "3", "&", "a", "p", "i", "k", "e", "y", "=", "a", "b", "c", "&", "t", "e", "x", "t", "=", "a", "a", "a", "a", "a", "a", "a", "a", "a", "a", "a", "a", "a", "a", "a", "a", "a", "a", "a", "a", "a", "a", "a", "a", "a", "a", "a", "a", "a", "a", "a", "a", "a", "a", "a", "a", "a", "a", "a", "a", "a", "a", "a", "a", "a", "a", "a", "a", "a", "z">>)
  @@ ("/whatsapp?phone=123&apikey=abc&text=bbbbbbbbbbbbbbbbbbbbbbbbbbbbbbbbbbbbbbbbbbbbbbbbbbz" :>
        <<"/", "w", "h", "a", "t", "s", "a", "p", "p", "?", "p", "h", "o", "n", "e", "=", "1", "2", "3", "&", "a", "p", "i", "k", "e", "y", "=", "a", "b", "c", "&", "t", "e", "x", "t", "=", "b", "b", "b", "b", "b", "b", "b", "b", "b", "b", "b", "b", "b", "b", "b", "b", "b", "b", "b", "b", "b", "b", "b", "b", "b", "b", "b", "b", "b", "b", "b", "b", "b", "b", "b", "b", "b", "b", "b", "b", "b", "b", "b", "b", "b", "b", "b", "b", "b", "b", "z">>)
  @@ ("/whatsapp?phone=123&apikey=abc&text=hi" :>
        <<"/", "w", "h", "a", "t", "s", "a", "p", "p", "?", "p", "h", "o", "n", "e", "=", "1", "2", "3", "&", "a", "p", "i", "k", "e", "y", "=", "a", "b", "c", "&", "t", "e", "x", "t", "=", "h", "i">>)
  @@ ("/whatsapp?phone=123&text=hi" :>
        <<"/", "w", "h", "a", "t", "s", "a", "p", "p", "?", "p", "h", "o", "n", "e", "=", "1", "2", "3", "&", "t", "e", "x", "t", "=", "h", "i">>)
  @@ ("/whatsapp?text=hi&phone=123&apikey=abc&lang=en" :>
        <<"/", "w", "h", "a", "t", "s", "a", "p", "p", "?", "t", "e", "x", "t", "=", "h", "i", "&", "p", "h", "o", "n", "e", "=", "1", "2", "3", "&", "a", "p", "i", "k", "e", "y", "=", "a", "b", "c", "&", "l", "a", "n", "g", "=", "e", "n">>)
  @@ ("/x/status/200" :>
        <<"/", "x", "/", "s", "t", "a", "t", "u", "s", "/", "2", "0", "0">>)
  @@ ("0" :>
        <<"0">>)
  @@ ("1" :>
        <<"1">>)
  @@ ("1.0.0" :>
        <<"1", ".", "0", ".", "0">>)
  @@ ("127.0.0.1" :>
        <<"1", "2", "7", ".", "0", ".", "0", ".", "1">>)
  @@ ("2" :>
        <<"2">>)
  @@ ("200" :>
        <<"2", "0", "0">>)
  @@ ("3" :>
        <<"3">>)
  @@ ("5" :>
        <<"5">>)
  @@ ("503" :>
        <<"5", "0", "3">>)
  @@ ("Access-Control-Allow-Headers" :>
        <<"A", "c", "c", "e", "s", "s", "-", "C", "o", "n", "t", "r", "o", "l", "-", "A", "l", "l", "o", "w", "-", "H", "e", "a", "d", "e", "r", "s">>)
  @@ ("Access-Control-Allow-Methods" :>
        <<"A", "c", "c", "e", "s", "s", "-", "C", "o", "n", "t", "r", "o", "l", "-", "A", "l", "l", "o", "w", "-", "M", "e", "t", "h", "o", "d", "s">>)
  @@ ("Access-Control-Allow-Origin" :>
        <<"A", "c", "c", "e", "s", "s", "-", "C", "o", "n", "t", "r", "o", "l", "-", "A", "l", "l", "o", "w", "-", "O", "r", "i", "g", "i", "n">>)
  @@ ("Content-Length" :>
        <<"C", "o", "n", "t", "e", "n", "t", "-", "L", "e", "n", "g", "t", "h">>)
  @@ ("Content-Type" :>
        <<"C", "o", "n", "t", "e", "n", "t", "-", "T", "y", "p", "e">>)
  @@ ("Date" :>
        <<"D", "a", "t", "e">>)
  @@ ("Delay out of range" :>
        <<"D", "e", "l", "a", "y", " ", "o", "u", "t", " ", "o", "f", " ", "r", "a", "n", "g", "e">>)
  @@ ("Endpoint not found" :>
        <<"E", "n", "d", "p", "o", "i", "n", "t", " ", "n", "o", "t", " ", "f", "o", "u", "n", "d">>)
  @@ ("GET" :>
        <<"G", "E", "T">>)
  @@ ("Host" :>
        <<"H", "o", "s", "t">>)
  @@ ("Invalid delay: " :>
        <<"I", "n", "v", "a", "l", "i", "d", " ", "d", "e", "l", "a", "y", ":", " ">>)
  @@ ("Invalid status code" :>
        <<"I", "n", "v", "a", "l", "i", "d", " ", "s", "t", "a", "t", "u", "s", " ", "c", "o", "d", "e">>)
  @@ ("Invalid value NaN (not a number)" :>
        <<"I", "n", "v", "a", "l", "i", "d", " ", "v", "a", "l", "u", "e", " ", "N", "a", "N", " ", "(", "n", "o", "t", " ", "a", " ", "n", "u", "m", "b", "e", "r", ")">>)
  @@ ("Missing required parameters" :>
        <<"M", "i", "s", "s", "i", "n", "g", " ", "r", "e", "q", "u", "i", "r", "e", "d", " ", "p", "a", "r", "a", "m", "e", "t", "e", "r", "s">>)
  @@ ("Mock response with status " :>
        <<"M", "o", "c", "k", " ", "r", "e", "s", "p", "o", "n", "s", "e", " ", "w", "i", "t", "h", " ", "s", "t", "a", "t", "u", "s", " ">>)
  @@ ("POST" :>
        <<"P", "O", "S", "T">>)
  @@ ("Response delayed by " :>
        <<"R", "e", "s", "p", "o", "n", "s", "e", " ", "d", "e", "l", "a", "y", "e", "d", " ", "b", "y", " ">>)
  @@ ("Server" :>
        <<"S", "e", "r", "v", "e", "r">>)
  @@ ("WhatsApp message queued successfully" :>
        <<"W", "h", "a", "t", "s", "A", "p", "p", " ", "m", "e", "s", "s", "a", "g", "e", " ", "q", "u", "e", "u", "e", "d", " ", "s", "u", "c", "c", "e", "s", "s", "f", "u", "l", "l", "y">>)
  @@ ("X-Test" :>
        <<"X", "-", "T", "e", "s", "t">>)
  @@ ("abc" :>
        <<"a", "b", "c">>)
  @@ ("apikey" :>
        <<"a", "p", "i", "k", "e", "y">>)
  @@ ("available_endpoints" :>
        <<"a", "v", "a", "i", "l", "a", "b", "l", "e", "_", "e", "n", "d", "p", "o", "i", "n", "t", "s">>)
  @@ ("body" :>
        <<"b", "o", "d", "y">>)
  @@ ("client" :>
        <<"c", "l", "i", "e", "n", "t">>)
  @@ ("content-length" :>
        <<"c", "o", "n", "t", "e", "n", "t", "-", "l", "e", "n", "g", "t", "h">>)
  @@ ("could not convert string to float: '" :>
        <<"c", "o", "u", "l", "d", " ", "n", "o", "t", " ", "c", "o", "n", "v", "e", "r", "t", " ", "s", "t", "r", "i", "n", "g", " ", "t", "o", " ", "f", "l", "o", "a", "t", ":", " ", "'">>)
  @@ ("delay" :>
        <<"d", "e", "l", "a", "y">>)
  @@ ("echo" :>
        <<"e", "c", "h", "o">>)
  @@ ("error" :>
        <<"e", "r", "r", "o", "r">>)
  @@ ("headers" :>
        <<"h", "e", "a", "d", "e", "r", "s">>)
  @@ ("health" :>
        <<"h", "e", "a", "l", "t", "h">>)
  @@ ("healthy" :>
        <<"h", "e", "a", "l", "t", "h", "y">>)
  @@ ("hello" :>
        <<"h", "e", "l", "l", "o">>)
  @@ ("hi" :>
        <<"h", "i">>)
  @@ ("message" :>
        <<"m", "e", "s", "s", "a", "g", "e">>)
  @@ ("method" :>
        <<"m", "e", "t", "h", "o", "d">>)
  @@ ("mock" :>
        <<"m", "o", "c", "k">>)
  @@ ("ok" :>
        <<"o", "k">>)
  @@ ("painlessMesh Mock HTTP Server" :>
        <<"p", "a", "i", "n", "l", "e", "s", "s", "M", "e", "s", "h", " ", "M", "o", "c", "k", " ", "H", "T", "T", "P", " ", "S", "e", "r", "v", "e", "r">>)
  @@ ("painlessMesh-MockServer" :>
        <<"p", "a", "i", "n", "l", "e", "s", "s", "M", "e", "s", "h", "-", "M", "o", "c", "k", "S", "e", "r", "v", "e", "r">>)
  @@ ("path" :>
        <<"p", "a", "t", "h">>)
  @@ ("phone" :>
        <<"p", "h", "o", "n", "e">>)
  @@ ("provided" :>
        <<"p", "r", "o", "v", "i", "d", "e", "d">>)
  @@ ("query_params" :>
        <<"q", "u", "e", "r", "y", "_", "p", "a", "r", "a", "m", "s">>)
  @@ ("request" :>
        <<"r", "e", "q", "u", "e", "s", "t">>)
  @@ ("requested_status" :>
        <<"r", "e", "q", "u", "e", "s", "t", "e", "d", "_", "s", "t", "a", "t", "u", "s">>)
  @@ ("required" :>
        <<"r", "e", "q", "u", "i", "r", "e", "d">>)
  @@ ("server" :>
        <<"s", "e", "r", "v", "e", "r">>)
  @@ ("status" :>
        <<"s", "t", "a", "t", "u", "s">>)
  @@ ("text" :>
        <<"t", "e", "x", "t">>)
  @@ ("timeout" :>
        <<"t", "i", "m", "e", "o", "u", "t">>)
  @@ ("timestamp" :>
        <<"t", "i", "m", "e", "s", "t", "a", "m", "p">>)
  @@ ("uptime" :>
        <<"u", "p", "t", "i", "m", "e">>)
  @@ ("version" :>
        <<"v", "e", "r", "s", "i", "o", "n">>)
  @@ ("whatsapp" :>
        <<"w", "h", "a", "t", "s", "a", "p", "p">>)
  @@ ("x-test" :>
        <<"x", "-", "t", "e", "s", "t">>)

T(s) == Texts[s]

(***************************************************************************)
(* urlparse(self.path): the fragment after "#" is cut off, then the query  *)
(* after the first "?".  Targets starting with "//" and path parameters    *)
(* (";") are not among the inputs of the model.                            *)
(***************************************************************************)
UrlNoFragment(url) ==
  LET i == IndexOf(url, "#")
  IN IF i = 0 THEN url ELSE SubSeq(url, 1, i - 1)

UrlPath(url) ==
  LET u == UrlNoFragment(url)
      i == IndexOf(u, "?")
  IN IF i = 0 THEN u ELSE SubSeq(u, 1, i - 1)

UrlQuery(url) ==
  LET u == UrlNoFragment(url)
      i == IndexOf(u, "?")
  IN IF i = 0 THEN <<>> ELSE SubSeq(u, i + 1, Len(u))

(***************************************************************************)
(* A Python dict is a sequence of entries [k, v] in insertion order, with  *)
(* no key twice.                                                           *)
(***************************************************************************)
DictHas(d, k) == \E i \in 1..Len(d) : d[i].k = k

DictIndex(d, k) == CHOOSE i \in 1..Len(d) : d[i].k = k

\* list(d.keys())
DictKeys(d) == [i \in 1..Len(d) |-> d[i].k]

\* d[k].append(x), d[k] = [x] for a new key
DictAppend(d, k, x) ==
  IF DictHas(d, k)
  THEN [d EXCEPT ![DictIndex(d, k)].v = Append(@, x)]
  ELSE Append(d, [k |-> k, v |-> <<x>>])

(***************************************************************************)
(* parse_qs(query): the pairs between "&"; a pair with no "=" or with an   *)
(* empty value is dropped (keep_blank_values is off); "+" stands for a     *)
(* space.  Percent escapes are not among the inputs of the model.          *)
(***************************************************************************)
PlusToSpace(s) == [i \in 1..Len(s) |-> IF s[i] = "+" THEN " " ELSE s[i]]

RECURSIVE CollectPairs(_, _)
CollectPairs(pairs, d) ==
  IF pairs = <<>> THEN d
  ELSE LET nv == Head(pairs)
           i == IndexOf(nv, "=")
           name == PlusToSpace(SubSeq(nv, 1, i - 1))
           value == PlusToSpace(SubSeq(nv, i + 1, Len(nv)))
       IN IF i = 0 \/ i = Len(nv)
          THEN CollectPairs(Tail(pairs), d)
          ELSE CollectPairs(Tail(pairs), DictAppend(d, name, value))

parse_qs(query) == CollectPairs(Split(query, "&"), <<>>)

\* _parse_path: the pieces of the path and the query parameters
PathParts(url) == Split(Strip(UrlPath(url), "/"), "/")

QueryParams(url) == parse_qs(UrlQuery(url))

(***************************************************************************)
(* JSON values: [t, c, s, n, items] with t the type: "c" a text c of the   *)
(* program, "s" a string s computed from the request, "i" an int n, "f" a  *)
(* float of n tenths, "null", "l" a list of values items, "d" a dict with  *)
(* keys of the program and "m" a dict with keys from the request: their    *)
(* items are entries [k, v].                                               *)
(***************************************************************************)
Value(t, c, s, n, items) == [t |-> t, c |-> c, s |-> s, n |-> n, items |-> items]

VC(c) == Value("c", c, <<>>, 0, <<>>)

VS(s) == Value("s", "", s, 0, <<>>)

VI(n) == Value("i", "", <<>>, n, <<>>)

VF(n) == Value("f", "", <<>>, n, <<>>)

VNull == Value("null", "", <<>>, 0, <<>>)

VL(items) == Value("l", "", <<>>, 0, items)

VD(items) == Value("d", "", <<>>, 0, items)

VM(items) == Value("m", "", <<>>, 0, items)

\* a list of strings, a dict entry, and the value of a key of a dict value
VStrings(ss) == VL([i \in 1..Len(ss) |-> VS(ss[i])])

KV(k, v) == [k |-> k, v |-> v]

HasField(d, k) == d.t = "d" /\ DictHas(d.items, k)

Field(d, k) == d.items[DictIndex(d.items, k)].v

\* the string of a string value
TextOf(v) == IF v.t = "c" THEN T(v.c) ELSE v.s

\* the one character outside ASCII that the model knows
NonAscii == "U+E9"

\* a character inside a JSON string literal: quotes and backslashes
\* escaped, and, as ensure_ascii asks, a character outside ASCII written
\* as \uXXXX
JsonEscapeChar(ch) ==
  IF ch = "\"" \/ ch = "\\" THEN <<"\\", ch>>
  ELSE IF ch = "\n" THEN <<"\\", "n">>
  ELSE IF ch = NonAscii THEN <<"\\", "u", "0", "0", "e", "9">>
  ELSE <<ch>>

RECURSIVE JsonEscapeRange(_, _, _)
JsonEscapeRange(s, lo, hi) ==
  IF lo > hi THEN <<>>
  ELSE IF lo = hi THEN JsonEscapeChar(s[lo])
  ELSE JsonEscapeRange(s, lo, (lo + hi) \div 2)
       \o JsonEscapeRange(s, ((lo + hi) \div 2) + 1, hi)

JsonEscape(s) ==
  IF \A i \in 1..Len(s) : JsonEscapeChar(s[i]) = <<s[i]>> THEN s
  ELSE JsonEscapeRange(s, 1, Len(s))

JsonString(s) == <<"\"">> \o JsonEscape(s) \o <<"\"">>

\* the line break and indentation before an item at nesting level lvl;
\* ind < 0 is indent=None (nothing)
Spaces(n) == [i \in 1..n |-> " "]

Newline(ind, lvl) == IF ind < 0 THEN <<>> ELSE <<"\n">> \o Spaces(ind * lvl)

ItemSep(ind) == IF ind < 0 THEN <<",", " ">> ELSE <<",">>

\* json.dumps(v, indent=ind) at nesting level lvl
RECURSIVE JsonDumpsAt(_, _, _)
RECURSIVE JsonItems(_, _, _, _)
JsonItems(items, t, ind, lvl) ==
  IF items = <<>> THEN <<>>
  ELSE Newline(ind, lvl)
       \o (CASE t = "d" -> JsonString(T(Head(items).k)) \o <<":", " ">>
                          \o JsonDumpsAt(Head(items).v, ind, lvl)
             [] t = "m" -> JsonString(Head(items).k) \o <<":", " ">>
                          \o JsonDumpsAt(Head(items).v, ind, lvl)
             [] t = "l" -> JsonDumpsAt(Head(items), ind, lvl))
       \o (IF Len(items) > 1 THEN ItemSep(ind) ELSE <<>>)
       \o JsonItems(Tail(items), t, ind, lvl)

JsonDumpsAt(v, ind, lvl) ==
  CASE v.t \in {"c", "s"} -> JsonString(TextOf(v))
    [] v.t = "i" -> IntToStr(v.n)
    [] v.t = "f" -> FloatRepr([kind |-> "num", neg |-> v.n < 0, tenths |-> v.n])
    [] v.t = "null" -> <<"n", "u", "l", "l">>
    [] v.t = "l" ->
         IF v.items = <<>> THEN <<"[", "]">>
         ELSE <<"[">> \o JsonItems(v.items, v.t, ind, lvl + 1)
              \o Newline(ind, lvl) \o <<"]">>
    [] v.t \in {"d", "m"} ->
         IF v.items = <<>> THEN <<"{", "}">>
         ELSE <<"{">> \o JsonItems(v.items, v.t, ind, lvl + 1)
              \o Newline(ind, lvl) \o <<"}">>

JsonDumps(v) == JsonDumpsAt(v, -1, 0)

JsonDumpsIndent(v, ind) == JsonDumpsAt(v, ind, 0)

\* str.encode("utf-8"): one byte for an ASCII character, two for U+E9
Utf8Char(ch) == IF ch = NonAscii THEN <<"xC3", "xA9">> ELSE <<ch>>

RECURSIVE Utf8Range(_, _, _)
Utf8Range(s, lo, hi) ==
  IF lo > hi THEN <<>>
  ELSE IF lo = hi THEN Utf8Char(s[lo])
  ELSE Utf8Range(s, lo, (lo + hi) \div 2)
       \o Utf8Range(s, ((lo + hi) \div 2) + 1, hi)

Utf8(s) ==
  IF \A i \in 1..Len(s) : s[i] # NonAscii THEN s
  ELSE Utf8Range(s, 1, Len(s))

(***************************************************************************)
(* Program constants.                                                      *)
(***************************************************************************)
MinStatus == 100

MaxStatus == 599

MaxDelay == 300

TimeoutSleep == 3600

TextShown == 50

(***************************************************************************)
(* Responses.  A handler builds [status, obj, body]: the status and the    *)
(* text it passes to _send_response, and the dict the text is dumped from. *)
(***************************************************************************)
Response(status, obj) ==
  [status |-> status, obj |-> obj, body |-> JsonDumps(obj)]

\* the headers send_response itself adds (the library's Server and Date)
LibraryHeaders == <<KV("Server", "BaseHTTP/0.6"), KV("Date", "<date>")>>

\* what reaches the socket: the status line and headers in one write (the
\* flush of end_headers), then the body bytes in another
HeadChunk(status, headers) ==
  [kind |-> "head", status |-> status, headers |-> headers, bytes |-> <<>>]

BodyChunk(bytes) ==
  [kind |-> "body", status |-> 0, headers |-> <<>>, bytes |-> bytes]

\* the Content-Length header of _send_response: str(len(body_bytes))
ContentLength(body) == NatToStr(Len(Utf8(body)))

\* _send_response without its CORS header
SendResponseHeadNoCors(status, body) ==
  HeadChunk(status,
            LibraryHeaders
            \o <<KV("Content-Type", "application/json"),
                 KV("Server", "painlessMesh-MockServer/1.0"),
                 KV("Content-Length", ContentLength(body))>>)

\* _send_response up to end_headers
SendResponseHead(status, body) ==
  HeadChunk(status,
            LibraryHeaders
            \o <<KV("Content-Type", "application/json"),
                 KV("Access-Control-Allow-Origin", "*"),
                 KV("Server", "painlessMesh-MockServer/1.0"),
                 KV("Content-Length", ContentLength(body))>>)

\* _send_response: self.wfile.write(body_bytes)
SendResponseBody(body) == BodyChunk(Utf8(body))

\* do_OPTIONS
OptionsHead ==
  HeadChunk(200,
            LibraryHeaders
            \o <<KV("Access-Control-Allow-Origin", "*"),
                 KV("Access-Control-Allow-Methods", "GET, POST, OPTIONS"),
                 KV("Access-Control-Allow-Headers", "Content-Type")>>)

(***************************************************************************)
(* Scenario handlers.  ts is the reading of time.time().                   *)
(***************************************************************************)
\* _handle_default; statusEnv is the text of MOCK_HTTP_STATUS
HandleDefault(statusEnv, ts) ==
  Response(IntValue(statusEnv),
           VD(<<KV("message", VC("painlessMesh Mock HTTP Server")),
                KV("status", VC("ok")),
                KV("timestamp", VF(ts))>>))

\* _handle_status: the range test that raises ValueError
\* the range check with its lower bound exclusive
StatusOutOfRangeExclusive(status_code) ==
  status_code <= MinStatus \/ status_code > MaxStatus

StatusOutOfRange(status_code) ==
  status_code < MinStatus \/ status_code > MaxStatus

InvalidStatus(code_str) ==
  Response(400,
           VD(<<KV("error", VC("Invalid status code")),
                KV("provided", VS(code_str))>>))

HandleStatus(code_str, ts) ==
  IF ~IsIntLiteral(code_str) THEN InvalidStatus(code_str)
  ELSE IF StatusOutOfRange(IntValue(code_str)) THEN InvalidStatus(code_str)
  ELSE Response(IntValue(code_str),
                VD(<<KV("requested_status", VI(IntValue(code_str))),
                     KV("message",
                        VS(T("Mock response with status ")
                           \o IntToStr(IntValue(code_str)))),
                     KV("timestamp", VF(ts))>>))

\* _handle_delay: the range test that raises ValueError
\* the range check with its upper bound exclusive
DelayOutOfRangeExclusive(delay) ==
  FloatLess(delay, 0) \/ ~FloatLess(delay, MaxDelay)

DelayOutOfRange(delay) == FloatLess(delay, 0) \/ FloatGreater(delay, MaxDelay)

\* _handle_delay up to time.sleep: the ValueError raised (err, with its
\* message), or the time to sleep, in tenths
DelayPlan(delay_str) ==
  LET delay == ParseFloat(delay_str)
  IN IF delay.kind = "err"
     THEN [err |-> TRUE, tenths |-> 0,
           msg |-> T("could not convert string to float: '")
                   \o delay_str \o T("'")]
     ELSE IF DelayOutOfRange(delay)
     THEN [err |-> TRUE, tenths |-> 0, msg |-> T("Delay out of range")]
     ELSE IF delay.kind = "nan"
     THEN [err |-> TRUE, tenths |-> 0,
           msg |-> T("Invalid value NaN (not a number)")]
     ELSE [err |-> FALSE, tenths |-> delay.tenths, msg |-> <<>>]

\* _handle_delay: the except branch
InvalidDelay(delay_str) ==
  Response(400,
           VD(<<KV("error",
                   VS(T("Invalid delay: ") \o DelayPlan(delay_str).msg)),
                KV("provided", VS(delay_str))>>))

\* _handle_delay after time.sleep
DelayDone(delay_str, ts) ==
  LET delay == ParseFloat(delay_str)
  IN Response(200,
              VD(<<KV("message",
                      VS(T("Response delayed by ") \o FloatRepr(delay)
                         \o T(" seconds"))),
                   KV("delay", VF(delay.tenths)),
                   KV("timestamp", VF(ts))>>))

\* dict(self.headers) and the query_params dict as JSON values
UpperChars ==
  <<"A", "B", "C", "D", "E", "F", "G", "H", "I", "J", "K", "L", "M",
    "N", "O", "P", "Q", "R", "S", "T", "U", "V", "W", "X", "Y", "Z">>

LowerChars ==
  <<"a", "b", "c", "d", "e", "f", "g", "h", "i", "j", "k", "l", "m",
    "n", "o", "p", "q", "r", "s", "t", "u", "v", "w", "x", "y", "z">>

\* str.lower()
LowerChar(ch) ==
  IF \E i \in 1..Len(UpperChars) : UpperChars[i] = ch
  THEN LowerChars[CHOOSE i \in 1..Len(UpperChars) : UpperChars[i] = ch]
  ELSE ch

Lower(s) == [i \in 1..Len(s) |-> LowerChar(s[i])]

\* self.headers[name]: the headers whose name is that name whatever the
\* case of the letters, and the value of the first of them
MessageIndices(headers, name) ==
  {i \in 1..Len(headers) : Lower(headers[i].k) = Lower(name)}

MessageGet(headers, name) ==
  headers[CHOOSE i \in MessageIndices(headers, name) :
            \A j \in MessageIndices(headers, name) : i <= j].v

\* dict(self.headers): for each name of keys(), in order, d[name] =
\* self.headers[name], so a name that comes twice is one key
RECURSIVE HeadersDict(_, _)
HeadersDict(headers, n) ==
  IF n = 0 THEN <<>>
  ELSE LET d == HeadersDict(headers, n - 1)
           k == headers[n].k
       IN IF DictHas(d, k) THEN d
          ELSE Append(d, KV(k, MessageGet(headers, k)))

HeadersValue(headers) ==
  LET d == HeadersDict(headers, Len(headers))
  IN VM([i \in 1..Len(d) |-> KV(d[i].k, VS(d[i].v))])

QueryValue(q) == VM([i \in 1..Len(q) |-> KV(q[i].k, VStrings(q[i].v))])

\* _handle_echo; body is [none |-> TRUE] for None
HandleEcho(method, path, headers, query_params, body, client, ts) ==
  LET obj == VD(<<KV("method", VS(method)),
                  KV("path", VS(path)),
                  KV("headers", HeadersValue(headers)),
                  KV("query_params", QueryValue(query_params)),
                  KV("body", IF body.none THEN VNull ELSE VS(body.text)),
                  KV("client", VS(client)),
                  KV("timestamp", VF(ts))>>)
  IN [status |-> 200, obj |-> obj, body |-> JsonDumpsIndent(obj, 2)]

\* query_params.get(name, [None])[0]: the first value, none when absent
FirstValue(query_params, name) ==
  IF DictHas(query_params, name)
  THEN [none |-> FALSE, text |-> query_params[DictIndex(query_params, name)].v[1]]
  ELSE [none |-> TRUE, text |-> <<>>]

\* not x, for x None or a string
Falsy(x) == x.none \/ x.text = <<>>

\* the truncation with a text of exactly 50 characters cut as well
TruncatedFrom50(text) ==
  IF Len(text) >= TextShown
  THEN SubSeq(text, 1, TextShown) \o T("...")
  ELSE text

\* text[:50] + "..." if len(text) > 50 else text
Truncated(text) ==
  IF Len(text) > TextShown
  THEN SubSeq(text, 1, TextShown) \o T("...")
  ELSE text

\* _handle_whatsapp
HandleWhatsapp(query_params, ts) ==
  LET phone == FirstValue(query_params, T("phone"))
      apikey == FirstValue(query_params, T("apikey"))
      text == FirstValue(query_params, T("text"))
  IN IF Falsy(phone) \/ Falsy(apikey) \/ Falsy(text)
     THEN Response(400,
                   VD(<<KV("error", VC("Missing required parameters")),
                        KV("required",
                           VL(<<VC("phone"), VC("apikey"), VC("text")>>)),
                        KV("provided", VStrings(DictKeys(query_params)))>>))
     ELSE Response(200,
                   VD(<<KV("message",
                           VC("WhatsApp message queued successfully")),
                        KV("phone", VS(phone.text)),
                        KV("text", VS(Truncated(text.text))),
                        KV("timestamp", VF(ts))>>))

\* _handle_health; start is server_start_time, ts2 the second reading
HandleHealth(start, ts, ts2) ==
  Response(200,
           VD(<<KV("status", VC("healthy")),
                KV("server", VC("painlessMesh-MockServer")),
                KV("version", VC("1.0.0")),
                KV("uptime", VF(ts - start)),
                KV("timestamp", VF(ts2))>>))

AvailableEndpoints ==
  <<VC("/"), VC("/status/{code}"), VC("/delay/{seconds}"), VC("/timeout"),
    VC("/echo"), VC("/whatsapp"), VC("/health")>>

\* _handle_not_found
HandleNotFound(path) ==
  Response(404,
           VD(<<KV("error", VC("Endpoint not found")),
                KV("path", VS(path)),
                KV("available_endpoints", VL(AvailableEndpoints))>>))

\* the router with its status and delay rules taking two pieces only
RouteExactlyTwo(path_parts) ==
  IF path_parts = <<>> \/ path_parts[1] = <<>> THEN "default"
  ELSE IF path_parts[1] = T("status") /\ Len(path_parts) = 2 THEN "status"
  ELSE IF path_parts[1] = T("delay") /\ Len(path_parts) = 2 THEN "delay"
  ELSE IF path_parts[1] = T("timeout") THEN "timeout"
  ELSE IF path_parts[1] = T("echo") THEN "echo"
  ELSE IF path_parts[1] = T("whatsapp") THEN "whatsapp"
  ELSE IF path_parts[1] = T("health") THEN "health"
  ELSE "not_found"

(***************************************************************************)
(* The router of _handle_request: the scenario of a list of path pieces.   *)
(***************************************************************************)
Route(path_parts) ==
  IF path_parts = <<>> \/ path_parts[1] = <<>> THEN "default"
  ELSE IF path_parts[1] = T("status") /\ Len(path_parts) > 1 THEN "status"
  ELSE IF path_parts[1] = T("delay") /\ Len(path_parts) > 1 THEN "delay"
  ELSE IF path_parts[1] = T("timeout") THEN "timeout"
  ELSE IF path_parts[1] = T("echo") THEN "echo"
  ELSE IF path_parts[1] = T("whatsapp") THEN "whatsapp"
  ELSE IF path_parts[1] = T("health") THEN "health"
  ELSE "not_found"

(***************************************************************************)
(* Requests.  A request is what the library hands to the handler: the      *)
(* method, the target of the request line (self.path), the headers, the    *)
(* bytes the client sends after them and the client's address.             *)
(***************************************************************************)
Request(method, target, headers, payload) ==
  [method |-> method, target |-> target,
   headers |-> <<KV(T("Host"), T("mock"))>> \o headers,
   payload |-> payload, client |-> T("127.0.0.1")]

Get(target) == Request("GET", target, <<>>, <<>>)

Options(target) == Request("OPTIONS", target, <<>>, <<>>)

\* a POST with no body and no Content-Length, and one with a body
PostEmpty(target) == Request("POST", target, <<>>, <<>>)

Post(target, payload) ==
  Request("POST", target,
          <<KV(T("Content-Length"), NatToStr(Len(payload)))>>, payload)

\* the requests of the concurrent specification
ConcRequests ==
  {Get(T("/timeout")), Get(T("/health")), Get(T("/delay/1")),
   Options(T("/timeout"))}

\* the targets of the single-request specification
StatusTargets ==
  {T("/status/200"), T("/status/100"), T("/status/599"), T("/status/404"),
   T("/status/99"), T("/status/600"), T("/status/-1"), T("/status/+204"),
   T("/status/5_03"), T("/status/200.0"), T("/status/abc"),
   T("/status/1e2"), T("/status"), T("/status/"), T("/status/404/extra"),
   T("/status//200"), T("/status/301?x=1"), T("/statusx/200"),
   T("/x/status/200")}

DelayTargets ==
  {T("/delay/0"), T("/delay/0.5"), T("/delay/2"), T("/delay/300"),
   T("/delay/300.5"), T("/delay/301"), T("/delay/-1"), T("/delay/-0"),
   T("/delay/abc"), T("/delay/nan"), T("/delay/inf"), T("/delay/.5"),
   T("/delay"), T("/delay/1/x"), T("/delay//1")}

WhatsappTargets ==
  {T("/whatsapp?phone=123&apikey=abc&text=hi"),
   T("/whatsapp?text=hi&phone=123&apikey=abc&lang=en"),
   T("/whatsapp"), T("/whatsapp?"),
   T("/whatsapp?phone=123&apikey=abc"),
   T("/whatsapp?phone=123&text=hi"),
   T("/whatsapp?apikey=abc&text=hi"),
   T("/whatsapp?phone=&apikey=abc&text=hi"),
   T("/whatsapp?phone=123&apikey=abc&text="),
   T("/whatsapp?phone=123&apikey&text=hi"),
   T("/whatsapp?phone=123&apikey=abc&text=aaaaaaaaaaaaaaaaaaaaaaaaaaaaaaaaaaaaaaaaaaaaaaaaaz"),
   T("/whatsapp?phone=123&apikey=abc&text=bbbbbbbbbbbbbbbbbbbbbbbbbbbbbbbbbbbbbbbbbbbbbbbbbbz"),
   T("/whatsapp/send?phone=123&apikey=abc&text=hi")}

OtherTargets ==
  {T("/"), T("/?x=1"), T("/timeout"), T("/timeout/x"), T("/timeoutx"),
   T("/echo"), T("/echo/a/b"), T("/echo?x=1&x=2&y=a+b"), T("/health"),
   T("/health/x/"), T("/nonexistent"), T("/Status/200"), T("/a//b")}

Targets == StatusTargets \cup DelayTargets \cup WhatsappTargets \cup OtherTargets

\* a POST whose Content-Length is no number, one that announces more
\* bytes than the client sends, one with a body outside ASCII, one whose
\* bytes are no UTF-8 (0xC3 with no continuation byte) and one that
\* announces fewer bytes than the client sends
OddPosts ==
  {Request("POST", T("/echo"), <<KV(T("Content-Length"), T("abc"))>>, <<>>),
   Request("POST", T("/echo"), <<KV(T("Content-Length"), T("5"))>>, T("hi")),
   Request("POST", T("/echo"), <<KV(T("Content-Length"), T("3"))>>,
           <<"h", "xC3", "xA9">>),
   Request("POST", T("/echo"), <<KV(T("Content-Length"), T("2"))>>,
           <<"h", "xC3">>),
   Request("POST", T("/echo"), <<KV(T("Content-Length"), T("2"))>>,
           T("hello"))}

\* requests to /echo: a POST with a body and a header of the client, one
\* with a header twice, one with it twice in letters of another case, one
\* with a Content-Length of zero, and a GET that carries a body
EchoRequests ==
  {Request("POST", T("/echo"),
           <<KV(T("Content-Length"), T("5")), KV(T("X-Test"), T("1"))>>,
           T("hello")),
   Request("POST", T("/echo"),
           <<KV(T("X-Test"), T("1")), KV(T("X-Test"), T("2"))>>, <<>>),
   Request("POST", T("/echo"),
           <<KV(T("X-Test"), T("1")), KV(T("x-test"), T("2"))>>, <<>>),
   Request("POST", T("/echo?x=1"),
           <<KV(T("content-length"), T("0"))>>, <<>>),
   Request("GET", T("/echo"),
           <<KV(T("Content-Length"), T("5"))>>, T("hello"))}

AllRequests ==
  {Get(t) : t \in Targets}
  \cup {PostEmpty(t) : t \in Targets}
  \cup {Post(T("/echo"), T("hello")), Post(T("/status/404"), T("hi"))}
  \cup OddPosts
  \cup EchoRequests
  \cup {Options(t) : t \in {T("/"), T("/timeout"), T("/delay/2"),
                            T("/nonexistent")}}

\* requests that fail in their handler (a Content-Length that is no
\* number, a body the client never completes), one refused with 400, and
\* requests that are answered
FailRequests ==
  {Request("POST", T("/echo"), <<KV(T("Content-Length"), T("abc"))>>, <<>>),
   Request("POST", T("/echo"), <<KV(T("Content-Length"), T("5"))>>, T("hi")),
   Get(T("/status/abc")), Get(T("/status/404")), Get(T("/health"))}

\* self.headers.get(name, default): the value, none when absent
HeaderGet(headers, name) ==
  IF MessageIndices(headers, name) # {}
  THEN [none |-> FALSE, text |-> MessageGet(headers, name)]
  ELSE [none |-> TRUE, text |-> <<>>]

(***************************************************************************)
(* The state.                                                              *)
(***************************************************************************)
VARIABLES
  main,               \* where the main thread is: "serving" (in
                      \* serve_forever), "interrupted" (in the except
                      \* branch), "exited" (the process has ended)
  exit_code,          \* the status the process exited with, -1 before
  server_start_time,  \* the global of that name, in tenths
  env,                \* the environment: MOCK_HTTP_DELAY, MOCK_HTTP_STATUS
  conns               \* the accepted connections, in order of acceptance,
                      \* each with the state of its handling thread

vars == <<main, exit_code, server_start_time, env, conns>>

\* the readings time.time() may give: it reads the wall clock of the
\* system, which may be set back between two calls, so a later call may
\* read less than an earlier one
TimeReadings == {15, 42}

\* the values of the environment variables a run may start with
DelayEnvs == {T("0"), T("1")}

StatusEnvs == {T("200"), T("503")}

NoBody == [none |-> TRUE, text |-> <<>>]

NoResponse == [status |-> 0, obj |-> VNull, body |-> <<>>]

\* a connection just accepted: its thread is started and the library has
\* parsed the request line and the headers; pc is where the thread is,
\* handler the scenario handler the router has called, remaining the rest
\* of the sleep it is in, gslept and rslept the time it has slept in the
\* global delay and in its scenario, out the writes to the socket, closed
\* whether the client has closed its end
NewConn(req) ==
  [req |-> req, pc |-> "recv", body |-> NoBody, handler |-> "none",
   remaining |-> 0, gslept |-> 0, rslept |-> 0, resp |-> NoResponse,
   out |-> <<>>, closed |-> FALSE]

Conns == 1..Len(conns)

\* the thread of connection c is in time.sleep
Sleeping(c) == conns[c].pc \in {"gsleep", "rsleep", "tsleep"}

\* the time.time() of main
StartReading == 10

\* main: server_start_time is set and the server is in serve_forever
Init ==
  /\ main = "serving"
  /\ exit_code = -1
  /\ server_start_time = StartReading
  /\ env \in [delay : DelayEnvs, status : {T("200")}]
  /\ conns = <<>>

\* the same, under any of the environments
InitOne ==
  /\ main = "serving"
  /\ exit_code = -1
  /\ server_start_time = StartReading
  /\ env \in [delay : DelayEnvs, status : StatusEnvs]
  /\ conns = <<>>

(***************************************************************************)
(* ThreadedHTTPServer.                                                     *)
(***************************************************************************)
Finished(c) == conns[c].pc \in {"done", "error"}

\* a server without ThreadingMixIn: the acceptor runs the handler itself
AcceptorInline == \A c \in Conns : Finished(c)

\* ThreadingMixIn: process_request starts a thread for the connection and
\* returns, so the acceptor is free whatever the handlers are doing
AcceptorFree == TRUE

\* daemon_threads = False: every handling thread is joined
JoinedAll == Conns

\* daemon_threads = True: no handling thread is joined when the process
\* exits
JoinedAtExit == {}

\* a server whose handlers' exceptions reach the acceptor
PropagatedErrors == {c \in Conns : conns[c].pc = "error"}

\* the handlers whose exception reaches serve_forever: none, the thread of
\* a connection ends with the exception it raises
Propagated == {}

\* serve_forever accepts a connection and hands it over
Accept(requests, limit) ==
  /\ main = "serving"
  /\ Len(conns) < limit
  /\ AcceptorFree
  /\ Propagated = {}
  /\ \E req \in requests : conns' = Append(conns, NewConn(req))
  /\ UNCHANGED <<main, exit_code, server_start_time, env>>

(***************************************************************************)
(* main: the except branch of KeyboardInterrupt.                           *)
(***************************************************************************)
\* the operator's interrupt reaches serve_forever, which is left
Interrupt ==
  /\ main = "serving"
  /\ main' = "interrupted"
  /\ UNCHANGED <<exit_code, server_start_time, env, conns>>

\* the except branch: server.shutdown() returns at once, as serve_forever
\* has ended, and sys.exit(0) ends the process once the threads it joins
\* have ended; the daemon threads end with it
Exit ==
  /\ main = "interrupted"
  /\ \A c \in JoinedAtExit : Finished(c)
  /\ main' = "exited"
  /\ exit_code' = 0
  /\ UNCHANGED <<server_start_time, env, conns>>

(***************************************************************************)
(* The handling thread of connection c.                                    *)
(***************************************************************************)
Running(c) == c \in Conns /\ main # "exited"

Goto(c, pc) == conns' = [conns EXCEPT ![c].pc = pc]

\* an OPTIONS request handed to _handle_request
DoOptionsRouted(c) ==
  /\ Running(c)
  /\ conns[c].pc = "recv"
  /\ conns[c].req.method = "OPTIONS"
  /\ conns' = [conns EXCEPT ![c].pc = "route"]
  /\ UNCHANGED <<main, exit_code, server_start_time, env>>

\* do_OPTIONS: the preflight answer, written by end_headers
DoOptions(c) ==
  /\ Running(c)
  /\ conns[c].pc = "recv"
  /\ conns[c].req.method = "OPTIONS"
  /\ conns' = [conns EXCEPT ![c].pc = "done", ![c].out = <<OptionsHead>>]
  /\ UNCHANGED <<main, exit_code, server_start_time, env>>

\* bytes.decode("utf-8") of well-formed bytes
RECURSIVE Utf8Decode(_)
Utf8Decode(b) ==
  IF b = <<>> THEN <<>>
  ELSE IF Head(b) = "xC3" THEN <<NonAscii>> \o Utf8Decode(Tail(Tail(b)))
  ELSE <<Head(b)>> \o Utf8Decode(Tail(b))

\* the bytes are well-formed UTF-8: 0xC3 0xA9 come as a pair
RECURSIVE Utf8Valid(_)
Utf8Valid(b) ==
  IF b = <<>> THEN TRUE
  ELSE IF Head(b) = "xC3"
  THEN Len(b) > 1 /\ b[2] = "xA9" /\ Utf8Valid(Tail(Tail(b)))
  ELSE Head(b) # "xA9" /\ Utf8Valid(Tail(b))

\* a _read_body that reads all the client has sent
ReadBodyAll(req) ==
  LET h == HeaderGet(req.headers, T("Content-Length"))
      n == IF h.none THEN 0 ELSE IntValue(h.text)
  IN IF ~h.none /\ ~IsIntLiteral(h.text)
     THEN [pc |-> "error", body |-> NoBody]
     ELSE IF n > 0 /\ Len(req.payload) < n
     THEN [pc |-> "reading", body |-> NoBody]
     ELSE IF n > 0 /\ ~Utf8Valid(req.payload)
     THEN [pc |-> "error", body |-> NoBody]
     ELSE IF n > 0
     THEN [pc |-> "ok",
           body |-> [none |-> FALSE, text |-> Utf8Decode(req.payload)]]
     ELSE [pc |-> "ok", body |-> [none |-> FALSE, text |-> <<>>]]

\* _read_body: the exception of int() or of decode, the body read, or the
\* read that waits for bytes the client has not sent
ReadBody(req) ==
  LET h == HeaderGet(req.headers, T("Content-Length"))
      n == IF h.none THEN 0 ELSE IntValue(h.text)
  IN IF ~h.none /\ ~IsIntLiteral(h.text)
     THEN [pc |-> "error", body |-> NoBody]
     ELSE IF n > 0 /\ Len(req.payload) < n
     THEN [pc |-> "reading", body |-> NoBody]
     ELSE IF n > 0 /\ ~Utf8Valid(SubSeq(req.payload, 1, n))
     THEN [pc |-> "error", body |-> NoBody]
     ELSE IF n > 0
     THEN [pc |-> "ok",
           body |-> [none |-> FALSE,
                     text |-> Utf8Decode(SubSeq(req.payload, 1, n))]]
     ELSE [pc |-> "ok", body |-> [none |-> FALSE, text |-> <<>>]]

\* the requests of all specifications
Requests == AllRequests \cup ConcRequests \cup FailRequests

\* what _read_body does is a function of the request: it is worked out
\* once for each request, as is what it does with the bytes that have
\* come when the client closes before the end of the body
Bodies == [req \in Requests |-> ReadBody(req)]

CutBodies ==
  [req \in Requests |->
     IF Utf8Valid(req.payload)
     THEN [pc |-> "ok",
           body |-> [none |-> FALSE, text |-> Utf8Decode(req.payload)]]
     ELSE [pc |-> "error", body |-> NoBody]]

\* default_delay = float(os.getenv("MOCK_HTTP_DELAY", "0"))
DefaultDelay == ParseFloat(env.delay)

\* the global delay applied only when it is longer than a second
GlobalSleepOverOne ==
  IF FloatGreater(DefaultDelay, 1) THEN DefaultDelay.tenths ELSE 0

\* if default_delay > 0: the time slept before the route is looked at
GlobalSleep == IF FloatGreater(DefaultDelay, 0) THEN DefaultDelay.tenths ELSE 0

\* _handle_request up to the router: the body is read (POST) and the
\* global delay is started
Begin(c) ==
  /\ Running(c)
  /\ conns[c].pc = "recv"
  /\ conns[c].req.method \in {"GET", "POST"}
  /\ LET rd == IF conns[c].req.method = "POST"
               THEN Bodies[conns[c].req]
               ELSE [pc |-> "ok", body |-> NoBody]
     IN conns' =
          [conns EXCEPT
             ![c].body = rd.body,
             ![c].pc = IF rd.pc # "ok" THEN rd.pc
                       ELSE IF DefaultDelay.kind \in {"err", "inf"}
                       THEN "error"
                       ELSE IF GlobalSleep > 0 THEN "gsleep" ELSE "route",
             ![c].remaining = IF rd.pc = "ok" THEN GlobalSleep ELSE 0]
  /\ UNCHANGED <<main, exit_code, server_start_time, env>>

\* time.sleep returns when the time asked for has passed
SleepOver(conn) == conn.remaining = 0

\* time.sleep(default_delay) returns
WakeGlobal(c) ==
  /\ Running(c)
  /\ conns[c].pc = "gsleep"
  /\ SleepOver(conns[c])
  /\ Goto(c, "route")
  /\ UNCHANGED <<main, exit_code, server_start_time, env>>

\* the method name as text
MethodText(method) == IF method = "GET" THEN T("GET") ELSE T("POST")

\* the body _read_body gives the router; a read the client ends by closing
\* gives the bytes that have come
BodyOf(req) ==
  IF req.method # "POST" THEN NoBody
  ELSE IF Bodies[req].pc = "reading" THEN CutBodies[req].body
  ELSE Bodies[req].body

\* the response of the scenarios that answer at once
AnswerTo(req, status, start, ts, ts2) ==
  LET parts == PathParts(req.target)
      scenario == Route(parts)
  IN CASE scenario = "default" -> HandleDefault(status, ts)
       [] scenario = "status" -> HandleStatus(parts[2], ts)
       [] scenario = "delay" -> InvalidDelay(parts[2])
       [] scenario = "echo" ->
            HandleEcho(MethodText(req.method), req.target, req.headers,
                       QueryParams(req.target), BodyOf(req), req.client, ts)
       [] scenario = "whatsapp" ->
            HandleWhatsapp(QueryParams(req.target), ts)
       [] scenario = "health" -> HandleHealth(start, ts, ts2)
       [] scenario = "not_found" -> HandleNotFound(req.target)
       [] scenario = "timeout" -> NoResponse

(***************************************************************************)
(* What a handler works out is a function of the request, of               *)
(* MOCK_HTTP_STATUS and of the clock.  It is worked out once for each      *)
(* request of the model: the scenario the router picks, what _handle_delay *)
(* makes of its argument, and the responses.                               *)
(***************************************************************************)
Scenarios == [req \in Requests |-> Route(PathParts(req.target))]

DelayPlans ==
  [req \in Requests |->
     IF Scenarios[req] = "delay"
     THEN DelayPlan(PathParts(req.target)[2])
     ELSE [err |-> TRUE, tenths |-> 0, msg |-> <<>>]]

Answers ==
  [req \in Requests |->
     [status \in StatusEnvs |->
        [ts \in TimeReadings |->
           [ts2 \in TimeReadings |->
              AnswerTo(req, status, StartReading, ts, ts2)]]]]

DelayedAnswers ==
  [req \in Requests |->
     [ts \in TimeReadings |->
        IF DelayPlans[req].err THEN NoResponse
        ELSE DelayDone(PathParts(req.target)[2], ts)]]

Scenario(c) == Scenarios[conns[c].req]

\* a handler that numbers the requests it has answered
AnswerCounted(c, ts, ts2) ==
  LET a == Answers[conns[c].req][env.status][ts][ts2]
  IN  Response(a.status, VD(Append(a.obj.items, KV("request", VI(c)))))

\* what the handler of connection c answers: it reads the request, the
\* environment and the clock, nothing that another handler has written
Answer(c, ts, ts2) == Answers[conns[c].req][env.status][ts][ts2]

\* _send_response up to end_headers: the response is kept and its status
\* line and headers are written
SendHead(c, resp) ==
  conns' = [conns EXCEPT
              ![c].handler = Scenario(c),
              ![c].resp = resp,
              ![c].pc = "head_sent",
              ![c].out = Append(@, SendResponseHead(resp.status, resp.body))]

\* the router and a scenario that answers at once (for the delay scenario:
\* its except branch)
Respond(c) ==
  /\ Running(c)
  /\ conns[c].pc = "route"
  /\ \/ Scenario(c) \in {"default", "status", "echo", "whatsapp", "health",
                        "not_found"}
     \/ /\ Scenario(c) = "delay"
        /\ DelayPlans[conns[c].req].err
  /\ \E ts, ts2 \in TimeReadings : SendHead(c, Answer(c, ts, ts2))
  /\ UNCHANGED <<main, exit_code, server_start_time, env>>

\* the router and _handle_delay up to time.sleep(delay)
StartDelay(c) ==
  /\ Running(c)
  /\ conns[c].pc = "route"
  /\ Scenario(c) = "delay"
  /\ ~DelayPlans[conns[c].req].err
  /\ conns' = [conns EXCEPT
                 ![c].handler = "delay",
                 ![c].pc = "rsleep",
                 ![c].remaining = DelayPlans[conns[c].req].tenths]
  /\ UNCHANGED <<main, exit_code, server_start_time, env>>

\* time.sleep(delay) returns: _handle_delay builds and sends its answer
WakeDelay(c) ==
  /\ Running(c)
  /\ conns[c].pc = "rsleep"
  /\ SleepOver(conns[c])
  /\ \E ts \in TimeReadings : SendHead(c, DelayedAnswers[conns[c].req][ts])
  /\ UNCHANGED <<main, exit_code, server_start_time, env>>

\* the router and _handle_timeout up to time.sleep(3600)
StartTimeout(c) ==
  /\ Running(c)
  /\ conns[c].pc = "route"
  /\ Scenario(c) = "timeout"
  /\ conns' = [conns EXCEPT ![c].handler = "timeout",
                            ![c].pc = "tsleep",
                            ![c].remaining = TimeoutSleep * 10]
  /\ UNCHANGED <<main, exit_code, server_start_time, env>>

\* a _handle_timeout that answers 504 when its sleep is over
TimeoutAnswered == <<SendResponseHead(504, <<>>)>>

\* what _handle_timeout writes once time.sleep(3600) has returned: nothing
TimeoutOutput == <<>>

\* time.sleep(3600) returns (or raises, which except: pass swallows) and
\* the handler returns
WakeTimeout(c) ==
  /\ Running(c)
  /\ conns[c].pc = "tsleep"
  /\ SleepOver(conns[c])
  /\ conns' = [conns EXCEPT ![c].pc = "done", ![c].out = @ \o TimeoutOutput]
  /\ UNCHANGED <<main, exit_code, server_start_time, env>>

\* _send_response: self.wfile.write(body_bytes), and the handler returns
WriteBody(c) ==
  /\ Running(c)
  /\ conns[c].pc = "head_sent"
  /\ conns' = [conns EXCEPT
                 ![c].pc = "done",
                 ![c].out = Append(@, SendResponseBody(conns[c].resp.body))]
  /\ UNCHANGED <<main, exit_code, server_start_time, env>>

(***************************************************************************)
(* The client closes its end of the connection.  A read that waits for     *)
(* bytes then ends with those that have come, or with the exception of a   *)
(* reset; a write to the connection may raise BrokenPipeError or           *)
(* ConnectionResetError, either at the flush of end_headers or at the      *)
(* write of the body.                                                      *)
(***************************************************************************)
Disconnect(c) ==
  /\ Running(c)
  /\ ~Finished(c)
  /\ ~conns[c].closed
  /\ conns' = [conns EXCEPT ![c].closed = TRUE]
  /\ UNCHANGED <<main, exit_code, server_start_time, env>>

\* _read_body: self.rfile.read(content_length) returns or raises
EndOfStream(c) ==
  /\ Running(c)
  /\ conns[c].pc = "reading"
  /\ conns[c].closed
  /\ \/ /\ CutBodies[conns[c].req].pc = "ok"
        /\ DefaultDelay.kind \notin {"err", "inf"}
        /\ conns' =
             [conns EXCEPT
                ![c].body = CutBodies[conns[c].req].body,
                ![c].pc = IF GlobalSleep > 0 THEN "gsleep" ELSE "route",
                ![c].remaining = GlobalSleep]
     \/ Goto(c, "error")
  /\ UNCHANGED <<main, exit_code, server_start_time, env>>

\* _send_response: end_headers or self.wfile.write raises
BrokenPipe(c) ==
  /\ Running(c)
  /\ conns[c].closed
  /\ \/ /\ conns[c].pc = "head_sent"
        /\ Goto(c, "error")
     \/ /\ conns[c].pc = "route"
        /\ Scenario(c) \notin {"timeout", "delay"}
        /\ conns' = [conns EXCEPT ![c].handler = Scenario(c),
                                  ![c].pc = "error"]
  /\ UNCHANGED <<main, exit_code, server_start_time, env>>

Handler(c) ==
  \/ DoOptions(c)
  \/ Begin(c)
  \/ WakeGlobal(c)
  \/ Respond(c)
  \/ StartDelay(c)
  \/ WakeDelay(c)
  \/ StartTimeout(c)
  \/ WakeTimeout(c)
  \/ WriteBody(c)
  \/ EndOfStream(c)
  \/ BrokenPipe(c)

(***************************************************************************)
(* Time passes: by d, up to the end of the sleep of some thread.  A        *)
(* sleeping thread has then slept min(d, remaining) longer.                *)
(***************************************************************************)
Min(a, b) == IF a < b THEN a ELSE b

Slept(conn, d) ==
  LET t == Min(d, conn.remaining)
  IN [conn EXCEPT !.remaining = @ - t,
                  !.gslept = IF conn.pc = "gsleep" THEN @ + t ELSE @,
                  !.rslept = IF conn.pc = "gsleep" THEN @ ELSE @ + t]

Tick ==
  /\ main # "exited"
  /\ \E c \in Conns :
       /\ Sleeping(c)
       /\ conns[c].remaining > 0
       /\ conns' = [k \in Conns |->
                      IF Sleeping(k) THEN Slept(conns[k], conns[c].remaining)
                      ELSE conns[k]]
  /\ UNCHANGED <<main, exit_code, server_start_time, env>>

(***************************************************************************)
(* Specifications.                                                         *)
(***************************************************************************)
AcceptConn == Accept(ConcRequests, MaxConn)

\* the server under concurrent clients
Next ==
  \/ AcceptConn
  \/ \E c \in Conns : DoOptions(c)
  \/ \E c \in Conns : Begin(c)
  \/ \E c \in Conns : WakeGlobal(c)
  \/ \E c \in Conns : Respond(c)
  \/ \E c \in Conns : StartDelay(c)
  \/ \E c \in Conns : WakeDelay(c)
  \/ \E c \in Conns : StartTimeout(c)
  \/ \E c \in Conns : WakeTimeout(c)
  \/ \E c \in Conns : WriteBody(c)
  \/ Tick
  \/ Interrupt
  \/ Exit

Spec == Init /\ [][Next]_vars

\* the server under one client that sends one request, any of AllRequests
AcceptOne == Accept(AllRequests, 1)

NextOne ==
  \/ AcceptOne
  \/ \E c \in Conns : DoOptions(c)
  \/ \E c \in Conns : Begin(c)
  \/ \E c \in Conns : WakeGlobal(c)
  \/ \E c \in Conns : Respond(c)
  \/ \E c \in Conns : StartDelay(c)
  \/ \E c \in Conns : WakeDelay(c)
  \/ \E c \in Conns : StartTimeout(c)
  \/ \E c \in Conns : WakeTimeout(c)
  \/ \E c \in Conns : WriteBody(c)
  \/ Tick

SpecOne == InitOne /\ [][NextOne]_vars

\* the same, with threads that go on running: the handler's thread takes
\* the step it can take and time passes for a thread that sleeps
FairOne == SpecOne /\ WF_vars(NextOne)

AcceptFail == Accept(FailRequests, MaxConn)

\* the server under concurrent clients that may close their connection
NextFail ==
  \/ AcceptFail
  \/ \E c \in Conns : Begin(c)
  \/ \E c \in Conns : WakeGlobal(c)
  \/ \E c \in Conns : Respond(c)
  \/ \E c \in Conns : WriteBody(c)
  \/ \E c \in Conns : Disconnect(c)
  \/ \E c \in Conns : EndOfStream(c)
  \/ \E c \in Conns : BrokenPipe(c)
  \/ Tick

SpecFail == Init /\ [][NextFail]_vars

\* the server under concurrent clients, with a main thread that goes on
\* running once it is in its except branch
FairSpec == Spec /\ WF_vars(Exit)

(***************************************************************************)
(* Vocabulary of the properties.                                           *)
(***************************************************************************)
GetOrPost(c) == conns[c].req.method \in {"GET", "POST"}

\* the response of connection c has begun (its head is written) and is
\* complete (its body is written too)
Begun(c) == Len(conns[c].out) > 0

Complete(c) == Len(conns[c].out) = 2

HeadOf(c) == conns[c].out[1]

ObjOf(c) == conns[c].resp.obj

\* a field of the JSON object answered, null when it has no such field
FieldOf(c, k) ==
  IF HasField(ObjOf(c), k) THEN Field(ObjOf(c), k) ELSE VNull

HasHeader(chunk, k) == \E i \in 1..Len(chunk.headers) : chunk.headers[i].k = k

HeaderIs(chunk, k, v) ==
  \E i \in 1..Len(chunk.headers) :
    chunk.headers[i].k = k /\ chunk.headers[i].v = v

\* the string x of a target prefix/x, x not empty and with no "/", "?", "#"
IsUnder(target, prefix) ==
  /\ StartsWith(target, prefix)
  /\ Len(target) > Len(prefix)
  /\ \A i \in (Len(prefix) + 1)..Len(target) : target[i] \notin {"/", "?", "#"}

Rest(target, prefix) == SubSeq(target, Len(prefix) + 1, Len(target))

\* the scenario has been dispatched for connection c
Dispatched(c) == conns[c].handler # "none"

\* C1: a GET or POST of /status/{code} is answered with the status code
\* itself and requested_status = code when code is an integer in
\* [100,599], and else with 400, error "Invalid status code" and
\* provided = code.
C1_StatusContract ==
  \A c \in Conns :
    (GetOrPost(c) /\ IsUnder(conns[c].req.target, T("/status/")) /\ Begun(c))
    => LET code == Rest(conns[c].req.target, T("/status/"))
       IN IF IsIntLiteral(code) /\ IntValue(code) >= 100
             /\ IntValue(code) <= 599
          THEN /\ HeadOf(c).status = IntValue(code)
               /\ HasField(ObjOf(c), "requested_status")
               /\ FieldOf(c, "requested_status") = VI(IntValue(code))
          ELSE /\ HeadOf(c).status = 400
               /\ HasField(ObjOf(c), "error")
               /\ FieldOf(c, "error") = VC("Invalid status code")
               /\ FieldOf(c, "provided") = VS(code)

C1_Witness ==
  \E c \in Conns :
    /\ conns[c].req.target = T("/status/599")
    /\ conns[c].pc = "done"
    /\ HeadOf(c).status = 599

\* C2: whatever handlers are suspended, the acceptor can accept the next
\* connection and every handler that is not itself asleep (or waiting for
\* its client) can take its next step.
C2_NoBlocking ==
  /\ (main = "serving" /\ Len(conns) < MaxConn) => ENABLED AcceptConn
  /\ \A c \in Conns :
       (/\ main # "exited"
        /\ ~Finished(c)
        /\ conns[c].pc # "reading"
        /\ ~(Sleeping(c) /\ conns[c].remaining > 0))
       => ENABLED Handler(c)

C2_Witness ==
  \E c, d \in Conns :
    /\ c < d
    /\ conns[c].req.target = T("/timeout")
    /\ conns[c].pc = "tsleep"
    /\ conns[c].remaining > 0
    /\ conns[d].req.target = T("/health")
    /\ conns[d].pc = "done"
    /\ Complete(d)
    /\ HeadOf(d).status = 200

\* C3: nothing is ever written to the connection of a request routed to
\* the timeout scenario, and its handler never ends in an error: not while
\* it sleeps, not when the process exits, not when the sleep is over.
C3_TimeoutSilent ==
  \A c \in Conns :
    (GetOrPost(c) /\ Scenario(c) = "timeout")
    => /\ Len(conns[c].out) = 0
       /\ conns[c].handler = "timeout" => conns[c].pc \in {"tsleep", "done"}

C3_Witness ==
  \E c \in Conns :
    /\ GetOrPost(c)
    /\ Scenario(c) = "timeout"
    /\ conns[c].pc = "done"
    /\ conns[c].rslept = 36000
    /\ Len(conns[c].out) = 0

\* the number of seconds of a /delay/{seconds} request is one in [0,300]
ValidSeconds(x) ==
  /\ x.kind = "num"
  /\ x.tenths >= 0
  /\ x.tenths <= 3000

\* C4: a GET or POST of /delay/{seconds} with seconds a number in [0,300]
\* is answered 200, and only once the handler has slept that long; with
\* any other seconds it is answered 400 with an error, and the handler
\* never sleeps in the scenario.
C4_DelayContract ==
  \A c \in Conns :
    (GetOrPost(c) /\ IsUnder(conns[c].req.target, T("/delay/")))
    => LET x == ParseFloat(Rest(conns[c].req.target, T("/delay/")))
       IN IF ValidSeconds(x)
          THEN Begun(c) => /\ HeadOf(c).status = 200
                           /\ conns[c].rslept >= x.tenths
          ELSE /\ conns[c].pc # "rsleep"
               /\ conns[c].rslept = 0
               /\ Begun(c) => /\ HeadOf(c).status = 400
                              /\ HasField(ObjOf(c), "error")

C4_Witness ==
  \E c \in Conns :
    /\ conns[c].req.target = T("/delay/300")
    /\ conns[c].pc = "done"
    /\ HeadOf(c).status = 200
    /\ conns[c].rslept = 3000

\* the non-empty segments of the path of a target
NonEmpty(seg) == seg # <<>>

Segments(target) == SelectSeq(Split(UrlPath(target), "/"), NonEmpty)

\* the routing table as claimed: exactly two segments for status and delay
ClaimedRoute(segs) ==
  IF segs = <<>> THEN "default"
  ELSE IF Len(segs) = 2 /\ segs[1] = T("status") THEN "status"
  ELSE IF Len(segs) = 2 /\ segs[1] = T("delay") THEN "delay"
  ELSE IF segs[1] = T("timeout") THEN "timeout"
  ELSE IF segs[1] = T("echo") THEN "echo"
  ELSE IF segs[1] = T("whatsapp") THEN "whatsapp"
  ELSE IF segs[1] = T("health") THEN "health"
  ELSE "not_found"

\* the routing table with two or more segments for status and delay
AmendedRoute(segs) ==
  IF segs = <<>> THEN "default"
  ELSE IF Len(segs) >= 2 /\ segs[1] = T("status") THEN "status"
  ELSE IF Len(segs) >= 2 /\ segs[1] = T("delay") THEN "delay"
  ELSE IF segs[1] = T("timeout") THEN "timeout"
  ELSE IF segs[1] = T("echo") THEN "echo"
  ELSE IF segs[1] = T("whatsapp") THEN "whatsapp"
  ELSE IF segs[1] = T("health") THEN "health"
  ELSE "not_found"

\* the answer of the not-found scenario
NotFoundAnswer(c) ==
  /\ HeadOf(c).status = 404
  /\ FieldOf(c, "error") = VC("Endpoint not found")
  /\ FieldOf(c, "path") = VS(conns[c].req.target)
  /\ FieldOf(c, "available_endpoints").t = "l"
  /\ Len(FieldOf(c, "available_endpoints").items) = 7

\* C5 as claimed: the scenario dispatched is the one of the routing table,
\* with exactly two segments for status and delay; not-found answers 404.
C5_RoutingAsClaimed ==
  \A c \in Conns :
    Dispatched(c)
    => /\ conns[c].handler = ClaimedRoute(Segments(conns[c].req.target))
       /\ (conns[c].handler = "not_found" /\ Begun(c)) => NotFoundAnswer(c)

\* C5, amended: the scenario dispatched is the one of the routing table,
\* with two or more segments for status and delay (the first the name, the
\* rest ignored by the router); not-found answers 404 with the error, the
\* path and the endpoints.
C5_Routing ==
  \A c \in Conns :
    Dispatched(c)
    => /\ conns[c].handler = AmendedRoute(Segments(conns[c].req.target))
       /\ (conns[c].handler = "not_found" /\ Begun(c)) => NotFoundAnswer(c)

C5_Witness ==
  \E c \in Conns :
    /\ conns[c].req.target = T("/status/404/extra")
    /\ conns[c].handler = "status"
    /\ conns[c].pc = "done"
    /\ HeadOf(c).status = 404

\* the configured global delay, in tenths
GlobalDelay == ParseFloat(env.delay).tenths

\* C6: a GET or POST whose scenario has been dispatched has slept the
\* global delay before, on every route; with no global delay it has not
\* slept before; and the answer of a valid /delay/{s} comes after D + s.
C6_GlobalDelay ==
  \A c \in Conns :
    GetOrPost(c)
    => /\ Dispatched(c) => conns[c].gslept = GlobalDelay
       /\ GlobalDelay = 0 => conns[c].pc # "gsleep" /\ conns[c].gslept = 0
       /\ (/\ IsUnder(conns[c].req.target, T("/delay/"))
           /\ ValidSeconds(ParseFloat(Rest(conns[c].req.target, T("/delay/"))))
           /\ Begun(c))
          => conns[c].gslept + conns[c].rslept
             >= GlobalDelay
                + ParseFloat(Rest(conns[c].req.target, T("/delay/"))).tenths

C6_Witness ==
  \E c \in Conns :
    /\ GlobalDelay = 10
    /\ conns[c].req.target = T("/delay/0.5")
    /\ conns[c].pc = "done"
    /\ conns[c].gslept = 10
    /\ conns[c].rslept = 5

\* C7: a response of a scenario handler carries Content-Type:
\* application/json, Access-Control-Allow-Origin: *, the Server header of
\* the mock server, and a Content-Length that is the number of body bytes
\* written.
C7_Envelope ==
  \A c \in Conns :
    (GetOrPost(c) /\ Begun(c))
    => /\ HeadOf(c).kind = "head"
       /\ HeaderIs(HeadOf(c), "Content-Type", "application/json")
       /\ HeaderIs(HeadOf(c), "Access-Control-Allow-Origin", "*")
       /\ HeaderIs(HeadOf(c), "Server", "painlessMesh-MockServer/1.0")
       /\ HasHeader(HeadOf(c), "Content-Length")
       /\ Complete(c)
          => \E i \in 1..Len(HeadOf(c).headers) :
               /\ HeadOf(c).headers[i].k = "Content-Length"
               /\ IsIntLiteral(HeadOf(c).headers[i].v)
               /\ IntValue(HeadOf(c).headers[i].v) = Len(conns[c].out[2].bytes)

C7_Witness ==
  \E c \in Conns :
    /\ conns[c].req.target = T("/delay/abc")
    /\ Complete(c)
    /\ HeadOf(c).status = 400
    /\ Len(conns[c].out[2].bytes) > 0

\* the name=value pairs of the query string of a target, as written
RawPairs(target) == SelectSeq(Split(UrlQuery(target), "&"), NonEmpty)

PairName(p) ==
  IF IndexOf(p, "=") = 0 THEN p ELSE SubSeq(p, 1, IndexOf(p, "=") - 1)

PairValue(p) ==
  IF IndexOf(p, "=") = 0 THEN <<>>
  ELSE SubSeq(p, IndexOf(p, "=") + 1, Len(p))

HasValue(p) == PairValue(p) # <<>>

\* the members of a sequence, each once, in the order they first come
RECURSIVE Distinct(_)
Distinct(s) ==
  IF s = <<>> THEN <<>>
  ELSE LET r == Distinct(Front(s))
           x == s[Len(s)]
       IN IF \E i \in 1..Len(r) : r[i] = x THEN r ELSE Append(r, x)

NamesOf(pairs) == Distinct([i \in 1..Len(pairs) |-> PairName(pairs[i])])

\* the names of the parameters present, and of those with a value
NamesPresent(target) == NamesOf(RawPairs(target))

NamesWithValue(target) == NamesOf(SelectSeq(RawPairs(target), HasValue))

\* the first non-empty value given for a name, <<>> when there is none
Given(target, name) ==
  LET ps == SelectSeq(RawPairs(target),
                      LAMBDA p : PairName(p) = name /\ HasValue(p))
  IN IF ps = <<>> THEN <<>> ELSE PairValue(ps[1])

Missing(target) ==
  \E name \in {T("phone"), T("apikey"), T("text")} : Given(target, name) = <<>>

ToWhatsapp(c) ==
  GetOrPost(c) /\ UrlPath(conns[c].req.target) = T("/whatsapp") /\ Begun(c)

\* the 200 answer of the whatsapp scenario
WhatsappQueued(c) ==
  LET text == Given(conns[c].req.target, T("text"))
  IN /\ HeadOf(c).status = 200
     /\ FieldOf(c, "phone") = VS(Given(conns[c].req.target, T("phone")))
     /\ FieldOf(c, "text")
        = VS(IF Len(text) <= 50 THEN text
             ELSE SubSeq(text, 1, 50) \o <<".", ".", ".">>)

\* the 400 answer of the whatsapp scenario, but for its provided field
WhatsappRefused(c) ==
  /\ HeadOf(c).status = 400
  /\ FieldOf(c, "error") = VC("Missing required parameters")
  /\ FieldOf(c, "required")
     = VL(<<VC("phone"), VC("apikey"), VC("text")>>)

\* C8 as claimed: a request to /whatsapp with phone, apikey or text absent
\* or empty is answered 400 with provided = the names of the parameters
\* present, and else 200 with the phone and the text, cut after 50
\* characters.
C8_WhatsappAsClaimed ==
  \A c \in Conns :
    ToWhatsapp(c)
    => IF Missing(conns[c].req.target)
       THEN /\ WhatsappRefused(c)
            /\ FieldOf(c, "provided")
               = VStrings(NamesPresent(conns[c].req.target))
       ELSE WhatsappQueued(c)

\* C8, amended: a request to /whatsapp with phone, apikey or text absent
\* or empty is answered 400 with provided = the names of the parameters
\* given a non-empty value, and else 200 with the phone and the text, cut
\* after 50 characters and followed by "..." when it is longer.
C8_Whatsapp ==
  \A c \in Conns :
    ToWhatsapp(c)
    => IF Missing(conns[c].req.target)
       THEN /\ WhatsappRefused(c)
            /\ FieldOf(c, "provided")
               = VStrings(NamesWithValue(conns[c].req.target))
       ELSE WhatsappQueued(c)

C8_Witness ==
  \E c \in Conns :
    /\ ToWhatsapp(c)
    /\ Len(Given(conns[c].req.target, T("text"))) = 51
    /\ HeadOf(c).status = 200
    /\ Len(FieldOf(c, "text").s) = 53
    /\ conns[c].pc = "done"

\* C9: an OPTIONS request, whatever its path, never sleeps the global
\* delay and never reaches the router or a scenario handler; its answer is
\* status 200 with the three CORS headers, no Content-Length and no body.
C9_Options ==
  \A c \in Conns :
    conns[c].req.method = "OPTIONS"
    => /\ conns[c].pc \in {"recv", "done"}
       /\ conns[c].gslept = 0
       /\ conns[c].rslept = 0
       /\ ~Dispatched(c)
       /\ conns[c].resp = NoResponse
       /\ conns[c].pc = "recv" => conns[c].out = <<>>
       /\ conns[c].pc = "done"
          => /\ Len(conns[c].out) = 1
             /\ HeadOf(c).kind = "head"
             /\ HeadOf(c).status = 200
             /\ HeaderIs(HeadOf(c), "Access-Control-Allow-Origin", "*")
             /\ HeaderIs(HeadOf(c), "Access-Control-Allow-Methods",
                         "GET, POST, OPTIONS")
             /\ HeaderIs(HeadOf(c), "Access-Control-Allow-Headers",
                         "Content-Type")
             /\ ~HasHeader(HeadOf(c), "Content-Length")

C9_Witness ==
  \E c \in Conns :
    /\ conns[c].req.method = "OPTIONS"
    /\ conns[c].req.target = T("/timeout")
    /\ GlobalDelay = 10
    /\ conns[c].pc = "done"
    /\ Len(conns[c].out) = 1

\* C10: once the interrupt has come no connection is accepted any more,
\* and the process then exits with status 0, whatever the handlers in
\* flight.
C10_Shutdown ==
  /\ [][main # "serving" => Len(conns') = Len(conns)]_vars
  /\ (main = "interrupted") ~> (main = "exited" /\ exit_code = 0)

C10_Witness ==
  /\ main = "exited"
  /\ exit_code = 0
  /\ \E c \in Conns :
       /\ conns[c].handler = "timeout"
       /\ conns[c].pc = "tsleep"
       /\ conns[c].remaining > 0

\* a /health request that has its answer
HealthAnswered(c) ==
  GetOrPost(c) /\ conns[c].handler = "health" /\ Begun(c)

Uptime(c) == FieldOf(c, "uptime").n

\* C11 as claimed: the start time is the one of startup in every state,
\* every /health answer is 200 with status "healthy" and uptime >= 0, and
\* a /health answer made after another one has an uptime not below it.
C11_HealthAsClaimed ==
  /\ [](/\ server_start_time = StartReading
        /\ \A c \in Conns :
             HealthAnswered(c)
             => /\ HeadOf(c).status = 200
                /\ FieldOf(c, "status") = VC("healthy")
                /\ Uptime(c) >= 0)
  /\ [][\A c, d \in Conns :
          (HealthAnswered(d) /\ ~HealthAnswered(c) /\ HealthAnswered(c)')
          => Uptime(c)' >= Uptime(d)]_vars

\* a request to the echo scenario that has its answer
EchoAnswered(c) == GetOrPost(c) /\ conns[c].handler = "echo" /\ Begun(c)

\* the headers object of the answer has name k with value v
EchoesHeader(c, k, v) ==
  \E m \in 1..Len(FieldOf(c, "headers").items) :
    /\ FieldOf(c, "headers").items[m].k = k
    /\ FieldOf(c, "headers").items[m].v = VS(v)

\* the body the request declares: the first Content-Length bytes of what
\* the client sent, as a string; empty with no Content-Length or with zero
DeclaredBody(req) ==
  LET h == HeaderGet(req.headers, <<"C", "o", "n", "t", "e", "n", "t", "-",
                                    "L", "e", "n", "g", "t", "h">>)
  IN IF h.none \/ IntValue(h.text) <= 0 THEN <<>>
     ELSE Utf8Decode(SubSeq(req.payload, 1, IntValue(h.text)))

\* the answer of the echo scenario, but for its headers and its body
EchoOfRequest(c) ==
  /\ HeadOf(c).status = 200
  /\ FieldOf(c, "method") = VS(MethodText(conns[c].req.method))
  /\ FieldOf(c, "path") = VS(conns[c].req.target)

\* C12 as claimed: the echo answer is 200 with the method, the full path,
\* every request header with its value, and the declared body as a string
\* (the first Content-Length bytes, empty when none is declared).
C12_EchoAsClaimed ==
  \A c \in Conns :
    EchoAnswered(c)
    => /\ EchoOfRequest(c)
       /\ \A i \in 1..Len(conns[c].req.headers) :
            EchoesHeader(c, conns[c].req.headers[i].k,
                         conns[c].req.headers[i].v)
       /\ FieldOf(c, "body") = VS(DeclaredBody(conns[c].req))

\* C12, amended: the echo answer is 200 with the method, the full path,
\* each request header name with the value of the first header of that
\* name (whatever the case of its letters) and no other name, and as body
\* the declared body as a string for a POST and null for a GET.
C12_Echo ==
  \A c \in Conns :
    EchoAnswered(c)
    => /\ EchoOfRequest(c)
       /\ \A i \in 1..Len(conns[c].req.headers) :
            EchoesHeader(c, conns[c].req.headers[i].k,
                         MessageGet(conns[c].req.headers,
                                    conns[c].req.headers[i].k))
       /\ \A m \in 1..Len(FieldOf(c, "headers").items) :
            \E i \in 1..Len(conns[c].req.headers) :
              conns[c].req.headers[i].k = FieldOf(c, "headers").items[m].k
       /\ FieldOf(c, "body")
          = IF conns[c].req.method = "POST"
            THEN VS(DeclaredBody(conns[c].req))
            ELSE VNull

C12_Witness ==
  \E c \in Conns :
    /\ EchoAnswered(c)
    /\ conns[c].req.method = "POST"
    /\ conns[c].pc = "done"
    /\ FieldOf(c, "body") = VS(<<"h", "e", "l", "l", "o">>)
    /\ EchoesHeader(c, <<"X", "-", "T", "e", "s", "t">>, <<"1">>)

\* the handling of connection c has failed: its handler has raised, or
\* its client has closed the connection
Failed(c) == conns[c].pc = "error" \/ conns[c].closed

\* the answers a request gets from a server that handles no other request
AnswersAlone(req) ==
  {Answers[req][env.status][ts][ts2] : ts, ts2 \in TimeReadings}

\* C13: whatever handlers have failed, the process keeps serving, the
\* acceptor can accept the next connection, every handler that has not
\* failed can take its next step, and what it answers is what it would
\* answer with no failure anywhere.
C13_FailureIsolated ==
  /\ main = "serving"
  /\ exit_code = -1
  /\ Len(conns) < MaxConn => ENABLED AcceptFail
  /\ \A c \in Conns :
       ~Failed(c)
       => /\ (/\ ~Finished(c)
              /\ conns[c].pc # "reading"
              /\ ~(Sleeping(c) /\ conns[c].remaining > 0))
             => ENABLED Handler(c)
          /\ Begun(c) => conns[c].resp \in AnswersAlone(conns[c].req)
          /\ conns[c].pc = "done" => Complete(c)

C13_Witness ==
  \E c, d \in Conns :
    /\ conns[c].pc = "error"
    /\ conns[c].closed
    /\ conns[c].out # <<>>
    /\ c < d
    /\ ~Failed(d)
    /\ conns[d].pc = "done"
    /\ HeadOf(d).status = 200

(***************************************************************************)
(* The writes of one response.  _send_response ends the head with          *)
(* end_headers(), which writes the buffered status line and headers to     *)
(* the unbuffered wfile, and then calls self.wfile.write(body_bytes): two  *)
(* writes to the socket, with "head_sent" the position between them.       *)
(***************************************************************************)
\* the client of connection c has the head of a response and not its body
PartialResponse(c) == Len(conns[c].out) = 1

\* C14: as the claim states it, no GET or POST connection is ever in a
\* state where the head of its response is written and the body is not.
C14_SingleWrite ==
  \A c \in Conns : GetOrPost(c) => ~PartialResponse(c)

\* the partial response a client is left with for good: the handler ended
\* between the two writes
C14_LeftPartial ==
  \E c \in Conns :
    /\ GetOrPost(c)
    /\ PartialResponse(c)
    /\ conns[c].pc = "error"

(***************************************************************************)
(* No state shared between requests.  The handlers read the globals        *)
(* server_start_time and os.environ and write neither; a handler object    *)
(* lives for one connection.                                               *)
(***************************************************************************)
\* a JSON object with the values of its fields of time left out
Structure(obj) ==
  [i \in 1..Len(obj.items) |->
     IF obj.items[i].k \in {"timestamp", "uptime"}
     THEN KV(obj.items[i].k, VNull)
     ELSE obj.items[i]]

SameAnswer(c, d) ==
  /\ conns[c].resp.status = conns[d].resp.status
  /\ Structure(conns[c].resp.obj) = Structure(conns[d].resp.obj)

\* C15: in every state two connections with the same request whose
\* responses have begun have the same status and, the values of timestamp
\* and uptime aside, the same body, whatever else was handled before or
\* at the same time; and no step changes the configuration or the start
\* time.
C15_NoSharedState ==
  /\ [](\A c, d \in Conns :
          (conns[c].req = conns[d].req /\ Begun(c) /\ Begun(d))
          => SameAnswer(c, d))
  /\ [][env' = env /\ server_start_time' = server_start_time]_vars

C15_Witness ==
  \E c, d \in Conns :
    /\ c < d
    /\ conns[c].req = Get(T("/status/404"))
    /\ conns[d].req = conns[c].req
    /\ Complete(c)
    /\ Complete(d)
    /\ HeadOf(d).status = 404
    /\ FieldOf(c, "timestamp") # FieldOf(d, "timestamp")

(***************************************************************************)
(* One response for each request.                                          *)
(***************************************************************************)
\* the body the request declares has come: a GET declares none, a POST
\* declares Content-Length bytes (none when the header is absent)
BodyReceived(req) ==
  \/ req.method = "GET"
  \/ /\ req.method = "POST"
     /\ LET h == HeaderGet(req.headers, T("Content-Length"))
        IN \/ h.none
           \/ /\ IsIntLiteral(h.text)
              /\ Len(req.payload) >= IntValue(h.text)

\* connection c carries a request that the claim says is answered
Answerable(c) ==
  /\ GetOrPost(c)
  /\ BodyReceived(conns[c].req)
  /\ Scenarios[conns[c].req] # "timeout"

Heads(c) == {i \in 1..Len(conns[c].out) : conns[c].out[i].kind = "head"}

BodyWrites(c) == {i \in 1..Len(conns[c].out) : conns[c].out[i].kind = "body"}

\* C16: as the claim states it, no connection ever has more than one
\* response (one head, one body), and a connection with a GET or POST
\* whose declared body has come and whose route is not the timeout
\* scenario leads to a state where its one response is complete.
C16_OneResponse ==
  /\ [](\A c \in Conns :
          Cardinality(Heads(c)) <= 1 /\ Cardinality(BodyWrites(c)) <= 1)
  /\ \A c \in 1..MaxConn :
       (c \in Conns /\ Answerable(c)) ~> (c \in Conns /\ Complete(c))

\* the request that is never answered: its handler has ended, with the
\* declared body received and nothing written
C16_Unanswered ==
  \E c \in Conns :
    /\ Answerable(c)
    /\ conns[c].pc = "error"
    /\ conns[c].out = <<>>

====
